---- MODULE Spec2Model ----
(***************************************************************************)
(* A model of the notebooks of AI_Academy_Globant_MTY, Module 4:           *)
(*   03_Transformer_Architecture.ipynb  (self_attention,                   *)
(*       PositionalEncoding, TransformerBlock, TransformerEncoder,         *)
(*       MaskedMultiHeadAttention, DecoderBlock, Transformer)              *)
(*   the BERT notebook (YelpDataset, the training loop, the evaluation)    *)
(*                                                                         *)
(* Tensors are sequences of sequences, indexed from 1 (the source's index  *)
(* i is the model's i+1; the positional encoding table keeps the source's  *)
(* 0-based positions).  A float is a fixed-point integer: the float f is   *)
(* the integer round(f * Scale).  Two more values exist: NegInf, what      *)
(* masked_fill writes, and NaN, what softmax returns on a row that is      *)
(* -inf everywhere.  exp, sin, cos and sqrt are computed to the            *)
(* resolution 1/Scale.                                                     *)
(***************************************************************************)
EXTENDS Integers, Sequences, FiniteSets, TLC

(***************************************************************************)
(* Bounds of the model.                                                    *)
(***************************************************************************)
MaxSeq == 2
MaxBatch == 2
MaxLen == 3
MaxDModel == 5
MaxBatches == 2
MaxExamples == 2

(***************************************************************************)
(* Numbers.                                                                *)
(***************************************************************************)
Scale == 1000
NegInf == -1000000000
NaN == 1000000000

IsNaN(a) == a = NaN
Finite(a) == a # NaN /\ a # NegInf

Abs(a) == IF a < 0 THEN 0 - a ELSE a

\* a / b rounded to the nearest integer, b > 0
RoundDiv(a, b) == (2 * a + b) \div (2 * b)

FAdd(a, b) == IF IsNaN(a) \/ IsNaN(b) THEN NaN ELSE a + b
FSub(a, b) == IF IsNaN(a) \/ IsNaN(b) THEN NaN ELSE a - b
\* the product of two floats
FMul(a, b) == IF IsNaN(a) \/ IsNaN(b) THEN NaN ELSE RoundDiv(a * b, Scale)
\* a float times the integer n
FScaleInt(n, a) == IF IsNaN(a) THEN NaN ELSE n * a
\* a float times the fraction n / m
FScaleFrac(a, n, m) == IF IsNaN(a) THEN NaN ELSE RoundDiv(a * n, m)
FDiv(a, b) == IF IsNaN(a) \/ IsNaN(b) THEN NaN ELSE RoundDiv(a * Scale, b)

RECURSIVE SumTo(_, _)
\* f[1] + ... + f[n] in float arithmetic
SumTo(f, n) == IF n = 0 THEN 0 ELSE FAdd(SumTo(f, n - 1), f[n])
Sum(f) == SumTo(f, Len(f))

RECURSIVE MaxTo(_, _)
MaxTo(f, n) ==
    IF n = 1 THEN f[1]
    ELSE LET m == MaxTo(f, n - 1) IN IF f[n] > m THEN f[n] ELSE m
MaxOf(f) == MaxTo(f, Len(f))

RECURSIVE ISqrtFrom(_, _)
ISqrtFrom(n, r) == IF (r + 1) * (r + 1) > n THEN r ELSE ISqrtFrom(n, r + 1)
\* floor of the square root, by bisection on the decimal digits
RECURSIVE ISqrt(_)
ISqrt(n) == IF n < 100 THEN ISqrtFrom(n, 0) ELSE ISqrtFrom(n, 10 * ISqrt(n \div 100))

\* the square root of the float a >= 0
FSqrt(a) == ISqrt(a * Scale)

RECURSIVE TaylorExp(_, _, _)
\* the terms k.. of sum (-f)^k / k!, term being the (k-1)-th one
TaylorExp(f, term, k) ==
    IF k > 12 \/ term = 0 THEN 0
    ELSE LET t == RoundDiv((0 - term) * f, k * Scale) IN t + TaylorExp(f, t, k + 1)

RECURSIVE ExpNegInt(_)
\* e^(-n), n a natural number
ExpNegInt(n) ==
    IF n = 0 THEN Scale
    ELSE IF n > 20 THEN 0
    ELSE RoundDiv(ExpNegInt(n - 1) * 367879, 1000000)

\* e^a for a float a <= 0 or a = NegInf
FExp(a) ==
    IF IsNaN(a) THEN NaN
    ELSE IF a = NegInf THEN 0
    ELSE LET n == (0 - a) \div Scale
             f == (0 - a) % Scale
         IN RoundDiv(ExpNegInt(n) * (Scale + TaylorExp(f, Scale, 1)), Scale)

RECURSIVE TaylorSin(_, _, _)
\* the terms after `term` of the sine (k = 2) or cosine (k = 1) series
TaylorSin(x, term, k) ==
    IF k > 24 \/ term = 0 THEN 0
    ELSE LET t == RoundDiv(RoundDiv((0 - term) * x, k * Scale) * x, (k + 1) * Scale)
         IN t + TaylorSin(x, t, k + 2)

FSin(x) == x + TaylorSin(x, x, 2)
FCos(x) == Scale + TaylorSin(x, Scale, 1)

(***************************************************************************)
(* Tensors.                                                                *)
(***************************************************************************)
\* A tensor stored element by element (Tensor.contiguous()): the function x
\* of 1, 2, 3 or 4 indices as sequences of sequences
Tensor1(x) == x \o <<>>
Tensor2(x) == Tensor1([i \in 1..Len(x) |-> Tensor1(x[i])])
Tensor3(x) == Tensor1([i \in 1..Len(x) |-> Tensor2(x[i])])
Tensor4(x) == Tensor1([i \in 1..Len(x) |-> Tensor3(x[i])])

\* x.size(0), x.size(1), x.size(2) of a 3-dimensional tensor
Size0(x) == Len(x)
Size1(x) == Len(x[1])
Size2(x) == Len(x[1][1])

\* the dot product of two vectors of one length
Dot(a, b) == Sum([e \in 1..Len(a) |-> FMul(a[e], b[e])])

\* torch.matmul(a, b) of a (n, m) matrix and a (m, p) matrix, p >= 1
MatMul(a, b) ==
    Tensor2(
        [i \in 1..Len(a) |->
            [c \in 1..Len(b[1]) |-> Sum([j \in 1..Len(b) |-> FMul(a[i][j], b[j][c])])]])

\* m.transpose(-2, -1) of a matrix with at least one row
Transpose(m) == Tensor2([j \in 1..Len(m[1]) |-> [i \in 1..Len(m) |-> m[i][j]]])

\* x.transpose(0, 1) of a 3-dimensional tensor
Transpose01(x) == Tensor3([s \in 1..Size1(x) |-> [b \in 1..Size0(x) |-> x[b][s]]])

(***************************************************************************)
(* Layers of torch.nn with fixed parameters.  A weight is an integer (a    *)
(* float with no fraction); the layers of one model differ by `layer`.     *)
(***************************************************************************)
D_MODEL == 4
NHEAD == 2
DIM_FEEDFORWARD == 8
\* self.head_dim = d_model // nhead
HeadDim == D_MODEL \div NHEAD

\* weight[o][i] of the Linear layer `layer`: entries in {-1, 0, 1}, the
\* diagonal always 1
Weight(layer, o, i) ==
    IF (o - i) % D_MODEL = 0 THEN 1
    ELSE ((layer + 2 * o + i) % 3) - 1
Bias(layer, o) == ((layer + o) % 2) * (Scale \div 2)

\* nn.Linear(n_in, n_out) applied to the vector x: x W^T + b
Linear(layer, n_out, x) ==
    Tensor1(
        [o \in 1..n_out |->
            FAdd(Sum([i \in 1..Len(x) |-> FScaleInt(Weight(layer, o, i), x[i])]),
                 Bias(layer, o))])

\* a Linear layer applied to the last axis of a 3-dimensional tensor
Linear3(layer, n_out, x) == Tensor3([b \in 1..Size0(x) |-> [s \in 1..Size1(x) |-> Linear(layer, n_out, x[b][s])]])

\* nn.ReLU
ReLU(a) == IF IsNaN(a) THEN NaN ELSE IF a < 0 THEN 0 ELSE a

\* the eps of nn.LayerNorm, 1e-5, in units of 1 / Scale^2
LayerNormEps == 10

\* nn.LayerNorm(d_model) on one vector, weight 1 and bias 0
LayerNorm(x) ==
    Tensor1(
        LET n == Len(x)
            total == Sum(x)
        IN IF IsNaN(total) THEN [c \in 1..n |-> NaN]
           ELSE LET mean == RoundDiv(total, n)
                    var == Sum([c \in 1..n |-> (x[c] - mean) * (x[c] - mean)]) \div n
                    std == ISqrt(var + LayerNormEps)
                IN [c \in 1..n |-> RoundDiv((x[c] - mean) * Scale, std)])

LayerNorm3(x) == Tensor3([b \in 1..Size0(x) |-> [s \in 1..Size1(x) |-> LayerNorm(x[b][s])]])

\* nn.Dropout(0.1): p in percent
DropoutPct == 10

\* one element through dropout: in training a dropped element is multiplied
\* by 0 and a kept one by 1 / (1 - p); in evaluation nothing changes
Dropout(train, dropped, a) ==
    IF ~train THEN a
    ELSE IF dropped THEN FScaleInt(0, a)
    ELSE FScaleFrac(a, 100, 100 - DropoutPct)

\* F.softmax(row, dim=-1) of one row of scores
Softmax(row) ==
    Tensor1(
        LET n == Len(row)
            m == MaxOf(row)
        IN IF (\E j \in 1..n : IsNaN(row[j])) \/ m = NegInf
           THEN [j \in 1..n |-> NaN]
           ELSE LET e == [j \in 1..n |->
                            IF row[j] = NegInf THEN 0 ELSE FExp(row[j] - m)]
                    total == Sum(e)
                IN [j \in 1..n |-> FDiv(e[j], total)])

(***************************************************************************)
(* Inputs.  A position holds one of two vectors of d_model floats; a       *)
(* tensor is built from a sequence of such tokens, batch element b+1       *)
(* holding the tokens of element b exchanged.                              *)
(***************************************************************************)
Tokens == {1, 2}
TokenVec(t) ==
    IF t = 1 THEN <<Scale, 0, 0 - Scale, Scale \div 2>>
    ELSE <<0 - (Scale \div 2), Scale, 2 * Scale, 0>>
OtherToken(t) == IF t = 1 THEN 2 ELSE 1
TokSeqs(n) == [1..n -> Tokens]
\* torch.randn(batch, n, d_model), drawn from the token vectors
Embed(ts, batch) ==
    Tensor3(
        [b \in 1..batch |->
            [s \in 1..Len(ts) |->
                TokenVec(IF b % 2 = 1 THEN ts[s] ELSE OtherToken(ts[s]))]])
\* ts with the tokens at positions > cut exchanged
Perturb(ts, cut) == Tensor1([s \in 1..Len(ts) |-> IF s > cut THEN OtherToken(ts[s]) ELSE ts[s]])

(***************************************************************************)
(* self_attention(Q, K, V)                                                 *)
(***************************************************************************)
\* torch.sqrt(torch.Tensor([K.shape[-1]]))
SelfDimension(K) == FSqrt(Size2(K) * Scale)

\* torch.matmul(Q, K.transpose(-2,-1)) / dimension
SelfScores(Q, K) ==
    Tensor3(
        [b \in 1..Size0(Q) |->
            [i \in 1..Size1(Q) |->
                [j \in 1..Size1(K) |-> FDiv(Dot(Q[b][i], K[b][j]), SelfDimension(K))]]])

\* a softmax taken along the query axis (dim=-2) instead of the key axis
SoftmaxAlongQueries(scores) ==
    Tensor3(
        [b \in 1..Len(scores) |-> Transpose([j \in 1..Len(scores[b][1]) |->
            Softmax([i \in 1..Len(scores[b]) |-> scores[b][i][j]])])])

\* F.softmax(scores, dim=-1)
SelfWeights(scores) == Tensor3([b \in 1..Len(scores) |-> [i \in 1..Len(scores[b]) |-> Softmax(scores[b][i])]])

\* the weights returned without the product with V
SelfOutputWithoutValues(w, V) == w

\* torch.matmul(weights, V)
SelfOutput(w, V) == Tensor3([b \in 1..Len(w) |-> MatMul(w[b], V[b])])

\* x.shape of a 3-dimensional tensor
Shape3(x) == <<Size0(x), Size1(x), Size2(x)>>

(***************************************************************************)
(* MaskedMultiHeadAttention                                                *)
(***************************************************************************)
\* mask=None
NoMask == <<>>
\* a triangular mask that leaves the diagonal out: torch.tril(..., diagonal=-1)
TrilBelowDiagonal(n) ==
    Tensor2([i \in 1..n |-> [j \in 1..n |-> IF j < i THEN 1 ELSE 0]])
\* torch.tril(torch.ones(n, n)): 1 where the key is not after the query
Tril(n) == Tensor2([i \in 1..n |-> [j \in 1..n |-> IF j <= i THEN 1 ELSE 0]])
StrictTril(n) == Tensor2([i \in 1..n |-> [j \in 1..n |-> IF j < i THEN 1 ELSE 0]])
Triu(n) == Tensor2([i \in 1..n |-> [j \in 1..n |-> IF j >= i THEN 1 ELSE 0]])

q_linear(x) == Linear3(1, D_MODEL, x)
k_linear(x) == Linear3(2, D_MODEL, x)
v_linear(x) == Linear3(3, D_MODEL, x)
out_linear(x) == Linear3(4, D_MODEL, x)

\* shape(x): (batch, seq, d_model) -> (batch, nhead, seq, head_dim)
SplitHeads(x) ==
    Tensor4(
        [b \in 1..Size0(x) |->
            [h \in 1..NHEAD |->
                [s \in 1..Size1(x) |->
                    [e \in 1..HeadDim |-> x[b][s][(h - 1) * HeadDim + e]]]]])

\* torch.matmul(q, k.transpose(-2, -1)) / (self.head_dim ** 0.5)
ScaledScores(q, k) ==
    Tensor4(
        [b \in 1..Len(q) |->
            [h \in 1..NHEAD |->
                [i \in 1..Len(q[b][h]) |->
                    [j \in 1..Len(k[b][h]) |->
                        FDiv(Dot(q[b][h][i], k[b][h][j]), FSqrt(HeadDim * Scale))]]]])

\* a forward pass that skips the masked_fill
IgnoreMask(scores, mask) == scores

\* a masked_fill that writes 0 instead of -inf
MaskedFillZero(scores, mask) ==
    Tensor4(
        IF mask = NoMask THEN scores
        ELSE [b \in 1..Len(scores) |->
                [h \in 1..NHEAD |->
                    [i \in 1..Len(scores[b][h]) |->
                        [j \in 1..Len(scores[b][h][i]) |->
                            IF mask[i][j] = 0 THEN 0 ELSE scores[b][h][i][j]]]]])

\* if mask is not None: scores.masked_fill(mask == 0, float('-inf'))
MaskedFill(scores, mask) ==
    Tensor4(
        IF mask = NoMask THEN scores
        ELSE [b \in 1..Len(scores) |->
                [h \in 1..NHEAD |->
                    [i \in 1..Len(scores[b][h]) |->
                        [j \in 1..Len(scores[b][h][i]) |->
                            IF mask[i][j] = 0 THEN NegInf ELSE scores[b][h][i][j]]]]])

\* F.softmax(scores, dim=-1)
AttnSoftmax(scores) ==
    Tensor4(
        [b \in 1..Len(scores) |->
            [h \in 1..NHEAD |->
                [i \in 1..Len(scores[b][h]) |-> Softmax(scores[b][h][i])]]])

\* self.dropout(attn_weights); dropped holds the indices the dropout zeroes
AttnDropout(w, train, dropped) ==
    Tensor4(
        [b \in 1..Len(w) |->
            [h \in 1..NHEAD |->
                [i \in 1..Len(w[b][h]) |->
                    [j \in 1..Len(w[b][h][i]) |->
                        Dropout(train, <<b, h, i, j>> \in dropped, w[b][h][i][j])]]]])

\* torch.matmul(attn_weights, v)
WeightedValues(w, v) == Tensor4([b \in 1..Len(w) |-> [h \in 1..NHEAD |-> MatMul(w[b][h], v[b][h])]])

\* output.permute(0, 2, 1, 3).contiguous().view(batch_size, -1, self.d_model)
ConcatHeads(o) ==
    Tensor3(
        [b \in 1..Len(o) |->
            [s \in 1..Len(o[b][1]) |->
                [c \in 1..D_MODEL |->
                    o[b][((c - 1) \div HeadDim) + 1][s][((c - 1) % HeadDim) + 1]]]])

\* MaskedMultiHeadAttention.forward(query, key, value, mask) as one function
MaskedAttention(qu, ke, va, mask, train, dropped) ==
    Tensor3(
        LET w == AttnDropout(
                     AttnSoftmax(MaskedFill(
                         ScaledScores(SplitHeads(q_linear(qu)), SplitHeads(k_linear(ke))),
                         mask)),
                     train, dropped)
        IN out_linear(ConcatHeads(WeightedValues(w, SplitHeads(v_linear(va))))))

(***************************************************************************)
(* PositionalEncoding                                                      *)
(***************************************************************************)
RECURSIVE Pow(_, _)
Pow(a, n) == IF n = 0 THEN 1 ELSE a * Pow(a, n - 1)

\* the user-chosen bases l tried with d_model: the d_model-th powers of
\* small integers, so that l^(2i/d_model) is an integer
Roots == {2, 10}
RECURSIVE IRootFrom(_, _, _)
IRootFrom(l, d, r) == IF Pow(r + 1, d) > l THEN r ELSE IRootFrom(l, d, r + 1)
\* l^(1/d)
IRoot(l, d) == IRootFrom(l, d, 1)

\* max_len=5000, l=10000
DefaultMaxLen == 5000
DefaultL == 10000

\* the length of range(start, n, 2) and of a slice start::2 of n columns
StepTwoLen(start, n) == IF n <= start THEN 0 ELSE (n - start + 1) \div 2

\* a frequency that advances with the channel instead of the pair: l^(n / d_model)
DivTermPerChannel(l, d, n) == Pow(IRoot(l, d), n)

\* 1 / div_term[n], div_term = exp(arange(0, d_model, 2) * -(log(l) / d_model)):
\* l^(2n / d_model)
DivTermInv(l, d, n) == Pow(IRoot(l, d), 2 * n)

\* (positions * div_term)[pos][n]
Angle(l, d, pos, n) == RoundDiv(pos * Scale, DivTermInv(l, d, n))

\* torch.sin(positions * div_term) and torch.cos(positions * div_term): one
\* row per position, one column per element of div_term
SinTable(l, d, max_len) ==
    [pos \in 0..(max_len - 1) |->
        [n \in 0..(StepTwoLen(0, d) - 1) |-> FSin(Angle(l, d, pos, n))]]
CosTable(l, d, max_len) ==
    [pos \in 0..(max_len - 1) |->
        [n \in 0..(StepTwoLen(0, d) - 1) |-> FCos(Angle(l, d, pos, n))]]

\* whether a right side with `have` columns can be assigned to a slice of
\* `want` columns: the same number, or one column broadcast
Assignable(have, want) == have = want \/ have = 1

\* enc[:, start::2] = table, of an encoding with d columns
AssignStepTwo(enc, start, d, table) ==
    [pos \in DOMAIN enc |->
        [c \in 0..(d - 1) |->
            IF c >= start /\ (c - start) % 2 = 0
            THEN table[pos][IF Cardinality(DOMAIN table[0]) = 1 THEN 0 ELSE (c - start) \div 2]
            ELSE enc[pos][c]]]

\* torch.zeros(max_len, d_model)
Zeros(max_len, d) == [pos \in 0..(max_len - 1) |-> [c \in 0..(d - 1) |-> 0]]

\* self.encoding[0] as PositionalEncoding.__init__ leaves it when both
\* assignments succeed
ConstructedEncoding(l, d, max_len) ==
    AssignStepTwo(
        AssignStepTwo(Zeros(max_len, d), 0, d, SinTable(l, d, max_len)),
        1, d, CosTable(l, d, max_len))

\* self.encoding[0][pos], the same for every max_len > pos
EncodingRow(l, d, pos) == ConstructedEncoding(l, d, pos + 1)[pos]

\* PositionalEncoding.forward: x + self.encoding[:, :x.size(1)], the slice of
\* shape (1, x.size(1), d_model) broadcast along the first axis of x
PositionalEncodingForward(x, l) ==
    Tensor3(
        [a \in 1..Size0(x) |->
            [b \in 1..Size1(x) |->
                [c \in 1..Size2(x) |->
                    FAdd(x[a][b][c], EncodingRow(l, Size2(x), b - 1)[c - 1])]]])

\* a local variable not assigned yet, an argument left at None
Unset == <<>>

(***************************************************************************)
(* TransformerBlock                                                        *)
(***************************************************************************)
\* the dropouts of a 3-dimensional tensor: `site` tells the calls apart
Dropout3(x, site, train, dropped) ==
    Tensor3(
        [a \in 1..Size0(x) |->
            [b \in 1..Size1(x) |->
                [c \in 1..Size2(x) |->
                    Dropout(train, <<site, a, b, c>> \in dropped, x[a][b][c])]]])

Add3(x, y) ==
    Tensor3(
        [a \in 1..Size0(x) |->
            [b \in 1..Size1(x) |-> [c \in 1..Size2(x) |-> FAdd(x[a][b][c], y[a][b][c])]]])

\* nn.MultiheadAttention(d_model, nhead) on tensors whose first axis is the
\* batch: projections, heads, scaled scores, softmax, weighted sum, out_proj
AttentionBatchFirst(base, xq, xk, xv) ==
    Tensor3(
        LET qh == SplitHeads(Linear3(base + 1, D_MODEL, xq))
            kh == SplitHeads(Linear3(base + 2, D_MODEL, xk))
            vh == SplitHeads(Linear3(base + 3, D_MODEL, xv))
            w == AttnSoftmax(ScaledScores(qh, kh))
        IN Linear3(base + 4, D_MODEL, ConcatHeads(WeightedValues(w, vh))))

\* nn.MultiheadAttention(d_model, nhead)(xq, xk, xv), batch_first=False: the
\* first axis of its arguments is the sequence, the second the batch
MultiheadAttention(base, xq, xk, xv) ==
    Transpose01(AttentionBatchFirst(base, Transpose01(xq), Transpose01(xk),
                                    Transpose01(xv)))

\* nn.ReLU() on a three-axis tensor
ReLU3(x) ==
    Tensor3([a \in 1..Size0(x) |-> [b \in 1..Size1(x) |-> [c \in 1..Size2(x) |-> ReLU(x[a][b][c])]]])

\* self.ffn: Linear(d_model, dim_feedforward), ReLU, Linear(dim_feedforward, d_model)
FeedForward(base, x) ==
    Linear3(base + 6, D_MODEL, ReLU3(Linear3(base + 5, DIM_FEEDFORWARD, x)))

\* TransformerBlock.forward(x, v): v = Unset is v=None
TransformerBlockForward(base, x, vv, train, dropped) ==
    Tensor3(
        LET attn == IF vv = Unset THEN MultiheadAttention(base, x, x, x)
                    ELSE MultiheadAttention(base, x, x, vv)
            x1 == LayerNorm3(Add3(x, Dropout3(attn, base + 1, train, dropped)))
            x2 == LayerNorm3(Add3(x1, Dropout3(FeedForward(base, x1), base + 2, train, dropped)))
        IN x2)

\* the weights of the n-th block of a stack
BlockBase(n) == 10 * n

\* TransformerEncoder(d_model=4, nhead=2, num_layers=2, dim_feedforward=8)
NUM_LAYERS == 2

(***************************************************************************)
(* DecoderBlock                                                            *)
(***************************************************************************)
\* the self-attention of the block called without its mask
DecoderSelfAttentionUnmasked(out, m, train, drop) ==
    MaskedAttention(out, out, out, NoMask, train, drop)

\* self.masked_attn(output, output, output, self.mask)
DecoderSelfAttention(out, m, train, drop) ==
    MaskedAttention(out, out, out, m, train, drop)

\* whether scores.masked_fill(mask == 0, ...) accepts the mask: None is
\* skipped, and a mask of shape (1, 1, rows, cols) has to broadcast to the
\* (batch, nhead, n, n) scores
MaskBroadcasts(m, n) ==
    \/ m = NoMask
    \/ /\ Len(m) \in {1, n}
       /\ Len(m[1]) \in {1, n}

\* DecoderBlock.forward(output, x) of the block with weights `base`
DecoderBlockForward(base, out, x, m, train, drop_attn, dropped) ==
    TransformerBlockForward(
        base, x,
        LayerNorm3(Add3(out, Dropout3(DecoderSelfAttention(out, m, train, drop_attn),
                                      base, train, dropped))),
        train, dropped)

(***************************************************************************)
(* Transformer                                                             *)
(***************************************************************************)
\* dim_out=12
DIM_OUT == 12

\* the weights of self.ffn
FfnLayer == 7

\* self.ffn: Linear(d_model, dim_out), ReLU
Ffn(x) == ReLU3(Linear3(FfnLayer, DIM_OUT, x))

\* a forward that returns self.ffn of the decoder's out
ReturnFfnOfOut(x, out) == Ffn(out)

\* x = self.ffn(x); return x, with the locals x and out in scope
ReturnFfn(x, out) == Ffn(x)

(***************************************************************************)
(* BERT fine-tuning: the optimizer, the scheduler and the model as the     *)
(* training and evaluation loops use them.                                 *)
(***************************************************************************)
\* for epoch in range(3)
EPOCHS == 3

\* a step that leaves the accumulated gradients in place
KeepGrad(g) == g

\* optimizer.zero_grad(): the gradients accumulated so far are cleared
ZeroGrad(g) == <<>>

\* loss.backward(): the gradient of this loss is added to what .grad holds;
\* a gradient is recorded as the list of the (epoch, batch) losses in it
Backward(g, contribution) == Append(g, contribution)

\* optimizer.step(): the parameters move along the gradient they hold (a
\* parameter without gradient is skipped); the parameters are recorded as the
\* list of the gradients applied to the pretrained weights
AdamWStep(p, g) == IF g = <<>> THEN p ELSE Append(p, g)

\* a scheduler.step() that counts two steps
SchedulerStepTwice(n) == n + 2

\* scheduler.step(): one more step counted
SchedulerStep(n) == n + 1

\* total_steps = len(train_loader) * 3, the num_training_steps of the scheduler
TotalSteps(len_train_loader) == len_train_loader * 3
\* an assignment in place of the +=: total_loss = loss.item()
AssignLoss(total, loss_item) == loss_item
\* total_loss += loss.item()
AddLoss(total, loss_item) == total + loss_item

\* outputs.loss of model(input_ids, attention_mask=..., labels=labels): a
\* positive number that depends on the parameters and on the batch
Loss(p, b) == Scale + ((Len(p) + b) % 3) * (Scale \div 2)

\* torch.argmax(outputs.logits, dim=1) for one example: a class that depends
\* on the parameters and on the example
Predict(p, input_ids) == (Len(p) + input_ids) % 2

\* a batch of test_loader: its examples, each <<input_ids, label>>
TestBatchChoices == {<< <<1, 0>> >>, << <<1, 1>>, <<2, 0>> >>}
InputIds(example) == example[1]
LabelOf(example) == example[2]

\* a loop body that also takes an optimizer and a scheduler step
EvalBatchAndStep(m, b) ==
    [m EXCEPT !.predictions = @ \o [e \in 1..Len(b) |-> Predict(m.params, InputIds(b[e]))],
              !.true_labels = @ \o [e \in 1..Len(b) |-> LabelOf(b[e])],
              !.params = AdamWStep(@, << <<EPOCHS, Len(m.true_labels)>> >>),
              !.opt_steps = @ + 1,
              !.sched_steps = SchedulerStep(@)]

\* the body of `for batch in test_loader` under torch.no_grad(), on the
\* objects m it can reach: a forward pass without labels, then
\* predictions.extend(argmax) and true_labels.extend(labels)
EvalBatch(m, b) ==
    [m EXCEPT !.predictions = @ \o [e \in 1..Len(b) |-> Predict(m.params, InputIds(b[e]))],
              !.true_labels = @ \o [e \in 1..Len(b) |-> LabelOf(b[e])]]

\* accuracy_score(true_labels, predictions)
AccuracyScore(t, p) ==
    RoundDiv(Cardinality({e \in 1..Len(t) : t[e] = p[e]}) * Scale, Len(t))

(***************************************************************************)
(* YelpDataset                                                             *)
(***************************************************************************)
\* the entry after the one asked for
IndexNext(val, i) == val[(i + 1) % Cardinality(DOMAIN val)]

\* val[idx]
Index(val, i) == val[i]

\* torch.tensor(data): a new tensor that holds a copy of the data
TorchTensor(data) == [tensor |-> data]

\* len(val)
PyLen(val) == Cardinality(DOMAIN val)

\* {key: torch.tensor(val[idx]) for key, val in self.encodings.items()}
ItemOfEncodings(enc, i) == [name \in DOMAIN enc |-> TorchTensor(Index(enc[name], i))]

\* item['labels'] = value: the key is added, or its value replaced
SetItem(it, name, val) ==
    [n \in (DOMAIN it) \cup {name} |-> IF n = name THEN val ELSE it[n]]

(***************************************************************************)
(* State.                                                                  *)
(***************************************************************************)
\* one call of self_attention: its arguments and its local variables
VARIABLES spc, Q, K, V, sa_scores, weights, sa_output
\* calls of MaskedMultiHeadAttention.forward, one per run in `runs`, on the
\* same layer (weights, mask, training mode, dropout outcome): the
\* arguments and the local variables of each run
VARIABLES mpc, runs, query, key, value, mask, training, dropped,
          q, k, v, scores, attn_weights, output, result

\* the construction of one PositionalEncoding(d_model, max_len, l)
VARIABLES ppc, d_model, max_len, l, encoding
\* one call of TransformerEncoder.forward: its argument, the running x, the
\* layers applied so far, the mode and the dropout outcome
VARIABLES epc, e_in, e_x, e_layer, e_training, e_dropped
\* calls of DecoderBlock.forward(output, x), one per run, on the same block
VARIABLES dpc, d_runs, d_output, d_x, d_mask, d_training, d_drop_attn, d_dropped,
          attn_output, d_result

\* the BERT notebook from the data loaders on: where it is, len(train_loader),
\* the batches of test_loader, model.training, the loop variables, the
\* gradients, the parameters, the steps taken by optimizer and scheduler,
\* what was printed (accuracy is empty until it is assigned), and the
\* history of the batches the loader yielded and
\* of the calls made for the current batch
VARIABLES bpc, num_batches, test_batches, model_training, epoch, remaining, batch,
          total_loss, loss, grad, params, opt_steps, sched_steps, printed,
          visited, events, t_next, predictions, true_labels, accuracy

bertVars == <<bpc, num_batches, test_batches, model_training, epoch, remaining, batch,
              total_loss, loss, grad, params, opt_steps, sched_steps, printed,
              visited, events, t_next, predictions, true_labels, accuracy>>
\* one YelpDataset(encodings, labels) and the calls made on it: the two
\* fields, the argument and the local variable of __getitem__, and what the
\* last call returned
VARIABLES ypc, encodings, labels, idx, item, returned

dataVars == <<ypc, encodings, labels, idx, item, returned>>
\* calls of Transformer.forward(x), one per run, on the same input with the
\* same encoder and ffn weights, mode and encoder dropout outcome: per run
\* the mask and the weights of the decoder blocks, the dropout outcome in
\* the decoder, the locals x and out, and what the call returned; f_raised
\* holds the runs that ended in a RuntimeError
VARIABLES fpc, f_runs, f_in, f_mask, f_base, f_training, f_enc_dropped,
          f_drop_attn, f_dec_dropped, f_x, f_out, f_layer, f_raised, f_result

tfVars == <<fpc, f_runs, f_in, f_mask, f_base, f_training, f_enc_dropped,
            f_drop_attn, f_dec_dropped, f_x, f_out, f_layer, f_raised, f_result>>
peVars == <<ppc, d_model, max_len, l, encoding>>
encVars == <<epc, e_in, e_x, e_layer, e_training, e_dropped>>
decVars == <<dpc, d_runs, d_output, d_x, d_mask, d_training, d_drop_attn, d_dropped,
             attn_output, d_result>>
selfVars == <<spc, Q, K, V, sa_scores, weights, sa_output>>
mhaVars == <<mpc, runs, query, key, value, mask, training, dropped,
             q, k, v, scores, attn_weights, output, result>>

\* what the steps of one routine leave alone: the state of the others
notSelf == <<mhaVars, peVars, encVars, decVars, bertVars, dataVars, tfVars>>
notMha == <<selfVars, peVars, encVars, decVars, bertVars, dataVars, tfVars>>
notPe == <<selfVars, mhaVars, encVars, decVars, bertVars, dataVars, tfVars>>
notEnc == <<selfVars, mhaVars, peVars, decVars, bertVars, dataVars, tfVars>>
notDec == <<selfVars, mhaVars, peVars, encVars, bertVars, dataVars, tfVars>>
notBert == <<selfVars, mhaVars, peVars, encVars, decVars, dataVars, tfVars>>
notData == <<selfVars, mhaVars, peVars, encVars, decVars, bertVars, tfVars>>
notTf == <<selfVars, mhaVars, peVars, encVars, decVars, bertVars, dataVars>>


SelfIdle ==
    /\ spc = "idle"
    /\ Q = Unset /\ K = Unset /\ V = Unset
    /\ sa_scores = Unset /\ weights = Unset /\ sa_output = Unset

MhaIdle ==
    /\ mpc = "idle"
    /\ runs = {}
    /\ query = Unset /\ key = Unset /\ value = Unset
    /\ mask = NoMask /\ training = FALSE /\ dropped = {}
    /\ q = Unset /\ k = Unset /\ v = Unset
    /\ scores = Unset /\ attn_weights = Unset /\ output = Unset /\ result = Unset

PeIdle ==
    /\ ppc = "idle"
    /\ d_model = 0 /\ max_len = 0 /\ l = 0 /\ encoding = Unset

EncIdle ==
    /\ epc = "idle"
    /\ e_in = Unset /\ e_x = Unset /\ e_layer = 0
    /\ e_training = FALSE /\ e_dropped = {}

DecIdle ==
    /\ dpc = "idle"
    /\ d_runs = {}
    /\ d_output = Unset /\ d_x = Unset /\ d_mask = NoMask
    /\ d_training = FALSE /\ d_drop_attn = {} /\ d_dropped = {}
    /\ attn_output = Unset /\ d_result = Unset

BertIdle ==
    /\ bpc = "idle"
    /\ num_batches = 0 /\ test_batches = <<>> /\ model_training = FALSE
    /\ epoch = 0 /\ remaining = {} /\ batch = 0 /\ total_loss = 0 /\ loss = 0
    /\ grad = <<>> /\ params = <<>> /\ opt_steps = 0 /\ sched_steps = 0
    /\ printed = <<>> /\ visited = <<>> /\ events = <<>>
    /\ t_next = 0 /\ predictions = <<>> /\ true_labels = <<>> /\ accuracy = Unset

DataIdle ==
    /\ ypc = "idle"
    /\ encodings = <<>> /\ labels = <<>>
    /\ idx = 0 /\ item = Unset /\ returned = Unset

TfIdle ==
    /\ fpc = "idle"
    /\ f_runs = {}
    /\ f_in = Unset /\ f_mask = <<>> /\ f_base = <<>>
    /\ f_training = FALSE /\ f_enc_dropped = {}
    /\ f_drop_attn = <<>> /\ f_dec_dropped = <<>>
    /\ f_x = Unset /\ f_out = Unset /\ f_layer = 0
    /\ f_raised = {} /\ f_result = Unset

(***************************************************************************)
(* self_attention(Q, K, V), statement by statement.                        *)
(***************************************************************************)
\* the value dimensions tried: d_v = d and d_v # d
VDims == {HeadDim, D_MODEL}
\* x[..., :d]
Narrow(x, d) == Tensor3([b \in 1..Size0(x) |-> [s \in 1..Size1(x) |-> SubSeq(x[b][s], 1, d)]])

SelfCall ==
    \E batch_size \in 1..MaxBatch, n_q \in 1..MaxSeq, n_k \in 1..MaxSeq, d_v \in VDims :
    \E tq \in TokSeqs(n_q), tk \in TokSeqs(n_k), tv \in TokSeqs(n_k) :
        /\ spc = "call"
        /\ Q = Embed(tq, batch_size)
        /\ K = Embed(tk, batch_size)
        /\ V = Narrow(Embed(tv, batch_size), d_v)
        /\ sa_scores = Unset /\ weights = Unset /\ sa_output = Unset

SelfScoresStep ==
    /\ spc = "call"
    /\ sa_scores' = SelfScores(Q, K)
    /\ spc' = "scores"
    /\ UNCHANGED <<Q, K, V, weights, sa_output>>
    /\ UNCHANGED notSelf

SelfSoftmaxStep ==
    /\ spc = "scores"
    /\ weights' = SelfWeights(sa_scores)
    /\ spc' = "weights"
    /\ UNCHANGED <<Q, K, V, sa_scores, sa_output>>
    /\ UNCHANGED notSelf

SelfOutputStep ==
    /\ spc = "weights"
    /\ sa_output' = SelfOutput(weights, V)
    /\ spc' = "return"
    /\ UNCHANGED <<Q, K, V, sa_scores, weights>>
    /\ UNCHANGED notSelf


(***************************************************************************)
(* MaskedMultiHeadAttention.forward, statement by statement, for every     *)
(* run at once.                                                            *)
(***************************************************************************)
\* the masks tried for keys and queries of length n
MaskChoices(n) == {NoMask, Tril(n), StrictTril(n), Triu(n)}
\* the dropout outcomes tried: nothing dropped, or one element
DropChoices(n) == {{}, {<<1, 1, n, 1>>}, {<<1, NHEAD, 1, 1>>}}

Project ==
    /\ mpc = "call"
    /\ q' = [r \in runs |-> SplitHeads(q_linear(query[r]))]
    /\ k' = [r \in runs |-> SplitHeads(k_linear(key[r]))]
    /\ v' = [r \in runs |-> SplitHeads(v_linear(value[r]))]
    /\ mpc' = "projected"
    /\ UNCHANGED <<runs, query, key, value, mask, training, dropped,
                   scores, attn_weights, output, result>>
    /\ UNCHANGED notMha

Score ==
    /\ mpc = "projected"
    /\ scores' = [r \in runs |-> ScaledScores(q[r], k[r])]
    /\ mpc' = "scored"
    /\ UNCHANGED <<runs, query, key, value, mask, training, dropped,
                   q, k, v, attn_weights, output, result>>
    /\ UNCHANGED notMha

Mask ==
    /\ mpc = "scored"
    /\ scores' = [r \in runs |-> MaskedFill(scores[r], mask)]
    /\ mpc' = "masked"
    /\ UNCHANGED <<runs, query, key, value, mask, training, dropped,
                   q, k, v, attn_weights, output, result>>
    /\ UNCHANGED notMha

SoftmaxStep ==
    /\ mpc = "masked"
    /\ attn_weights' = [r \in runs |-> AttnSoftmax(scores[r])]
    /\ mpc' = "softmax"
    /\ UNCHANGED <<runs, query, key, value, mask, training, dropped,
                   q, k, v, scores, output, result>>
    /\ UNCHANGED notMha

DropoutStep ==
    /\ mpc = "softmax"
    /\ attn_weights' = [r \in runs |-> AttnDropout(attn_weights[r], training, dropped)]
    /\ mpc' = "dropout"
    /\ UNCHANGED <<runs, query, key, value, mask, training, dropped,
                   q, k, v, scores, output, result>>
    /\ UNCHANGED notMha

WeightedStep ==
    /\ mpc = "dropout"
    /\ output' = [r \in runs |-> WeightedValues(attn_weights[r], v[r])]
    /\ mpc' = "weighted"
    /\ UNCHANGED <<runs, query, key, value, mask, training, dropped,
                   q, k, v, scores, attn_weights, result>>
    /\ UNCHANGED notMha

Return ==
    /\ mpc = "weighted"
    /\ result' = [r \in runs |-> out_linear(ConcatHeads(output[r]))]
    /\ mpc' = "return"
    /\ UNCHANGED <<runs, query, key, value, mask, training, dropped,
                   q, k, v, scores, attn_weights, output>>
    /\ UNCHANGED notMha


\* one call: any mask, evaluation or training mode
MhaCall ==
    \E batch_size \in 1..MaxBatch, n \in 1..MaxSeq :
    \E tk \in TokSeqs(n), tv \in TokSeqs(n), same \in BOOLEAN :
        /\ mpc = "call"
        /\ runs = {1}
        /\ key = [r \in runs |-> Embed(tk, batch_size)]
        /\ value = [r \in runs |-> Embed(tv, batch_size)]
        /\ query = IF same THEN key ELSE value
        /\ mask \in MaskChoices(n)
        /\ training \in BOOLEAN
        /\ dropped \in (IF training THEN DropChoices(n) ELSE {{}})
        /\ q = Unset /\ k = Unset /\ v = Unset
        /\ scores = Unset /\ attn_weights = Unset /\ output = Unset /\ result = Unset

\* two calls under the causal mask: run 2 is given the key and value of run 1
\* changed at the positions after `cut`
CausalCall ==
    \E batch_size \in 1..MaxBatch, n \in 1..MaxSeq :
    \E tk \in TokSeqs(n), tv \in TokSeqs(n), same \in BOOLEAN, cut \in 0..(n - 1),
       chk \in BOOLEAN, chv \in BOOLEAN :
        /\ chk \/ chv
        /\ mpc = "call"
        /\ runs = {1, 2}
        /\ key = [r \in runs |->
                    Embed(IF r = 2 /\ chk THEN Perturb(tk, cut) ELSE tk, batch_size)]
        /\ value = [r \in runs |->
                    Embed(IF r = 2 /\ chv THEN Perturb(tv, cut) ELSE tv, batch_size)]
        /\ query = [r \in runs |-> IF same THEN key[1] ELSE value[1]]
        /\ mask = Tril(n)
        /\ training \in BOOLEAN
        /\ dropped \in (IF training THEN DropChoices(n) ELSE {{}})
        /\ q = Unset /\ k = Unset /\ v = Unset
        /\ scores = Unset /\ attn_weights = Unset /\ output = Unset /\ result = Unset

(***************************************************************************)
(* PositionalEncoding.__init__, statement by statement.                    *)
(***************************************************************************)
PENew ==
    \E d \in 1..MaxDModel, n \in 1..MaxLen, r \in Roots :
        /\ ppc = "new"
        /\ d_model = d /\ max_len = n /\ l = Pow(r, d)
        /\ encoding = Unset

\* self.encoding = torch.zeros(max_len, d_model)
PEZeros ==
    /\ ppc = "new"
    /\ encoding' = Zeros(max_len, d_model)
    /\ ppc' = "zeros"
    /\ UNCHANGED <<d_model, max_len, l>>
    /\ UNCHANGED notPe

\* self.encoding[:, 0::2] = torch.sin(positions * div_term)
PESin ==
    /\ ppc = "zeros"
    /\ Assignable(StepTwoLen(0, d_model), StepTwoLen(0, d_model))
    /\ encoding' = AssignStepTwo(encoding, 0, d_model, SinTable(l, d_model, max_len))
    /\ ppc' = "sin"
    /\ UNCHANGED <<d_model, max_len, l>>
    /\ UNCHANGED notPe

\* self.encoding[:, 1::2] = torch.cos(positions * div_term): a RuntimeError
\* when the numbers of columns do not match
PECos ==
    /\ ppc = "sin"
    /\ IF Assignable(StepTwoLen(0, d_model), StepTwoLen(1, d_model))
       THEN /\ encoding' = AssignStepTwo(encoding, 1, d_model,
                                         CosTable(l, d_model, max_len))
            /\ ppc' = "cos"
       ELSE /\ encoding' = encoding
            /\ ppc' = "error"
    /\ UNCHANGED <<d_model, max_len, l>>
    /\ UNCHANGED notPe

\* self.encoding = self.encoding.unsqueeze(0)
PEUnsqueeze ==
    /\ ppc = "cos"
    /\ encoding' = [z \in {0} |-> encoding]
    /\ ppc' = "done"
    /\ UNCHANGED <<d_model, max_len, l>>
    /\ UNCHANGED notPe

(***************************************************************************)
(* TransformerEncoder.forward, statement by statement.                     *)
(***************************************************************************)
DropChoices3(site) == {{}, {<<site, 1, 1, 1>>}}

\* model(x), x of shape (seq_len, batch_size, d_model)
EncCall ==
    \E seq_len \in 1..MaxSeq, batch_size \in 1..MaxBatch :
    \E ts \in TokSeqs(seq_len) :
        /\ epc = "call"
        /\ e_in = Transpose01(Embed(ts, batch_size))
        /\ e_x = e_in
        /\ e_layer = 0
        /\ e_training \in BOOLEAN
        /\ e_dropped \in (IF e_training THEN DropChoices3(BlockBase(1) + 1) ELSE {{}})

\* x = self.positional_encoding(x)
EncPositional ==
    /\ epc = "call"
    /\ Size1(e_x) <= DefaultMaxLen
    /\ e_x' = PositionalEncodingForward(e_x, DefaultL)
    /\ epc' = "positional"
    /\ UNCHANGED <<e_in, e_layer, e_training, e_dropped>>
    /\ UNCHANGED notEnc

\* for layer in self.layers: x = layer(x)
EncLayer ==
    /\ epc \in {"positional", "layers"}
    /\ e_layer < NUM_LAYERS
    /\ e_x' = TransformerBlockForward(BlockBase(e_layer + 1), e_x, Unset,
                                      e_training, e_dropped)
    /\ e_layer' = e_layer + 1
    /\ epc' = "layers"
    /\ UNCHANGED <<e_in, e_training, e_dropped>>
    /\ UNCHANGED notEnc

\* return x
EncReturn ==
    /\ epc = "layers"
    /\ e_layer = NUM_LAYERS
    /\ epc' = "return"
    /\ UNCHANGED <<e_in, e_x, e_layer, e_training, e_dropped>>
    /\ UNCHANGED notEnc

(***************************************************************************)
(* DecoderBlock.forward, statement by statement, for every run at once.    *)
(***************************************************************************)
\* the dropout of the decoder block and those of its transformer block
DecoderSite == 0
DecoderBase == BlockBase(1)

\* two calls of one block under the causal mask: the same x, and an output
\* that run 2 is given changed at the positions after `cut`
DecCall ==
    \E batch_size \in 1..MaxBatch, n \in 1..MaxSeq :
    \E tout \in TokSeqs(n), tx \in TokSeqs(n), cut \in 0..n, mode \in 0..2 :
        /\ dpc = "call"
        /\ d_runs = {1, 2}
        /\ d_output = [r \in d_runs |->
                        Embed(IF r = 2 THEN Perturb(tout, cut) ELSE tout, batch_size)]
        /\ d_x = Embed(tx, batch_size)
        /\ d_mask = Tril(n)
        /\ d_training = (mode > 0)
        /\ d_drop_attn = IF mode = 2 THEN {<<1, 1, n, 1>>} ELSE {}
        /\ d_dropped = IF mode = 2
                       THEN {<<DecoderSite, 1, 1, 1>>, <<DecoderBase + 1, 1, n, 1>>}
                       ELSE {}
        /\ attn_output = Unset /\ d_result = Unset

\* attn_output = self.masked_attn(output, output, output, self.mask)
DecSelfAttention ==
    /\ dpc = "call"
    /\ attn_output' = [r \in d_runs |->
                        DecoderSelfAttention(d_output[r], d_mask, d_training, d_drop_attn)]
    /\ dpc' = "attention"
    /\ UNCHANGED <<d_runs, d_output, d_x, d_mask, d_training, d_drop_attn, d_dropped,
                   d_result>>
    /\ UNCHANGED notDec

\* attn_output = output + self.dropout(attn_output)
DecResidual ==
    /\ dpc = "attention"
    /\ attn_output' = [r \in d_runs |->
                        Add3(d_output[r],
                             Dropout3(attn_output[r], DecoderSite, d_training, d_dropped))]
    /\ dpc' = "residual"
    /\ UNCHANGED <<d_runs, d_output, d_x, d_mask, d_training, d_drop_attn, d_dropped,
                   d_result>>
    /\ UNCHANGED notDec

\* attn_output = self.norm(attn_output)
DecNorm ==
    /\ dpc = "residual"
    /\ attn_output' = [r \in d_runs |-> LayerNorm3(attn_output[r])]
    /\ dpc' = "norm"
    /\ UNCHANGED <<d_runs, d_output, d_x, d_mask, d_training, d_drop_attn, d_dropped,
                   d_result>>
    /\ UNCHANGED notDec

\* x = self.transformer_block(x, attn_output); return x
DecTransformerBlock ==
    /\ dpc = "norm"
    /\ d_result' = [r \in d_runs |->
                      TransformerBlockForward(DecoderBase, d_x, attn_output[r],
                                              d_training, d_dropped)]
    /\ dpc' = "return"
    /\ UNCHANGED <<d_runs, d_output, d_x, d_mask, d_training, d_drop_attn, d_dropped,
                   attn_output>>
    /\ UNCHANGED notDec

(***************************************************************************)
(* The BERT notebook: training loop, then evaluation, statement by         *)
(* statement.                                                              *)
(***************************************************************************)
\* the test loaders tried: one or more batches, in the order of the dataset
TestLoaders == UNION {[1..n -> TestBatchChoices] : n \in 1..MaxBatches}

\* the data loaders, the pretrained model (from_pretrained returns it in
\* evaluation mode), the optimizer and the scheduler
BertSetup ==
    \E n \in 1..MaxBatches, tl \in TestLoaders :
        /\ bpc = "setup"
        /\ num_batches = n /\ test_batches = tl /\ model_training = FALSE
        /\ epoch = 0 /\ remaining = {} /\ batch = 0 /\ total_loss = 0 /\ loss = 0
        /\ grad = <<>> /\ params = <<>> /\ opt_steps = 0 /\ sched_steps = 0
        /\ printed = <<>> /\ visited = <<>> /\ events = <<>>
        /\ t_next = 0 /\ predictions = <<>> /\ true_labels = <<>> /\ accuracy = Unset

\* model.to(device); model.train()
TrainMode ==
    /\ bpc = "setup"
    /\ model_training' = TRUE
    /\ bpc' = "for_epoch"
    /\ UNCHANGED <<num_batches, test_batches, epoch, remaining, batch, total_loss, loss,
                   grad, params, opt_steps, sched_steps, printed, visited, events,
                   t_next, predictions, true_labels, accuracy>>
    /\ UNCHANGED notBert

\* for epoch in range(3): total_loss = 0, and a new pass over train_loader
EpochBegin ==
    /\ bpc = "for_epoch"
    /\ epoch < EPOCHS
    /\ total_loss' = 0
    /\ remaining' = 1..num_batches
    /\ bpc' = "for_batch"
    /\ UNCHANGED <<num_batches, test_batches, model_training, epoch, batch, loss,
                   grad, params, opt_steps, sched_steps, printed, visited, events,
                   t_next, predictions, true_labels, accuracy>>
    /\ UNCHANGED notBert

\* for batch in train_loader (shuffle=True): any batch not yet yielded
NextBatch ==
    /\ bpc = "for_batch"
    /\ \E b \in remaining :
        /\ batch' = b
        /\ remaining' = remaining \ {b}
        /\ visited' = Append(visited, <<epoch, b>>)
    /\ events' = <<>>
    /\ bpc' = "zero_grad"
    /\ UNCHANGED <<num_batches, test_batches, model_training, epoch, total_loss, loss,
                   grad, params, opt_steps, sched_steps, printed,
                   t_next, predictions, true_labels, accuracy>>
    /\ UNCHANGED notBert

\* optimizer.zero_grad()
ZeroGradStep ==
    /\ bpc = "zero_grad"
    /\ grad' = ZeroGrad(grad)
    /\ events' = Append(events, "optimizer.zero_grad")
    /\ bpc' = "forward"
    /\ UNCHANGED <<num_batches, test_batches, model_training, epoch, remaining, batch,
                   total_loss, loss, params, opt_steps, sched_steps, printed, visited,
                   t_next, predictions, true_labels, accuracy>>
    /\ UNCHANGED notBert

\* outputs = model(input_ids, attention_mask=attention_mask, labels=labels);
\* loss = outputs.loss
ForwardStep ==
    /\ bpc = "forward"
    /\ loss' = Loss(params, batch)
    /\ events' = Append(events, "forward")
    /\ bpc' = "backward"
    /\ UNCHANGED <<num_batches, test_batches, model_training, epoch, remaining, batch,
                   total_loss, grad, params, opt_steps, sched_steps, printed, visited,
                   t_next, predictions, true_labels, accuracy>>
    /\ UNCHANGED notBert

\* loss.backward()
BackwardStep ==
    /\ bpc = "backward"
    /\ grad' = Backward(grad, <<epoch, batch>>)
    /\ events' = Append(events, "loss.backward")
    /\ bpc' = "optimizer_step"
    /\ UNCHANGED <<num_batches, test_batches, model_training, epoch, remaining, batch,
                   total_loss, loss, params, opt_steps, sched_steps, printed, visited,
                   t_next, predictions, true_labels, accuracy>>
    /\ UNCHANGED notBert

\* optimizer.step()
OptimizerStep ==
    /\ bpc = "optimizer_step"
    /\ params' = AdamWStep(params, grad)
    /\ opt_steps' = opt_steps + 1
    /\ events' = Append(events, "optimizer.step")
    /\ bpc' = "scheduler_step"
    /\ UNCHANGED <<num_batches, test_batches, model_training, epoch, remaining, batch,
                   total_loss, loss, grad, sched_steps, printed, visited,
                   t_next, predictions, true_labels, accuracy>>
    /\ UNCHANGED notBert

\* scheduler.step()
SchedulerStepStep ==
    /\ bpc = "scheduler_step"
    /\ sched_steps' = SchedulerStep(sched_steps)
    /\ events' = Append(events, "scheduler.step")
    /\ bpc' = "accumulate"
    /\ UNCHANGED <<num_batches, test_batches, model_training, epoch, remaining, batch,
                   total_loss, loss, grad, params, opt_steps, printed, visited,
                   t_next, predictions, true_labels, accuracy>>
    /\ UNCHANGED notBert

\* total_loss += loss.item()
Accumulate ==
    /\ bpc = "accumulate"
    /\ total_loss' = AddLoss(total_loss, loss)
    /\ bpc' = "for_batch"
    /\ UNCHANGED <<num_batches, test_batches, model_training, epoch, remaining, batch,
                   loss, grad, params, opt_steps, sched_steps, printed, visited, events,
                   t_next, predictions, true_labels, accuracy>>
    /\ UNCHANGED notBert

\* train_loader is exhausted:
\* print(f"Epoch {epoch + 1}, Loss: {total_loss / len(train_loader)}")
EpochEnd ==
    /\ bpc = "for_batch"
    /\ remaining = {}
    /\ printed' = Append(printed, <<epoch + 1, FDiv(total_loss, num_batches * Scale)>>)
    /\ epoch' = epoch + 1
    /\ bpc' = "for_epoch"
    /\ UNCHANGED <<num_batches, test_batches, model_training, remaining, batch,
                   total_loss, loss, grad, params, opt_steps, sched_steps, visited, events,
                   t_next, predictions, true_labels, accuracy>>
    /\ UNCHANGED notBert

\* range(3) is exhausted
TrainingEnd ==
    /\ bpc = "for_epoch"
    /\ epoch = EPOCHS
    /\ bpc' = "trained"
    /\ UNCHANGED <<num_batches, test_batches, model_training, epoch, remaining, batch,
                   total_loss, loss, grad, params, opt_steps, sched_steps, printed,
                   visited, events, t_next, predictions, true_labels, accuracy>>
    /\ UNCHANGED notBert

\* model.eval(); predictions, true_labels = [], []
EvalMode ==
    /\ bpc = "trained"
    /\ model_training' = FALSE
    /\ predictions' = <<>> /\ true_labels' = <<>>
    /\ t_next' = 1
    /\ bpc' = "for_test_batch"
    /\ UNCHANGED <<num_batches, test_batches, epoch, remaining, batch, total_loss, loss,
                   grad, params, opt_steps, sched_steps, printed, visited, events,
                   accuracy>>
    /\ UNCHANGED notBert

\* what the evaluation loop can reach of the model, the optimizer, the
\* scheduler and the two lists
Objects ==
    [params |-> params, grad |-> grad, opt_steps |-> opt_steps,
     sched_steps |-> sched_steps, predictions |-> predictions,
     true_labels |-> true_labels]

\* for batch in test_loader (shuffle=False): the body, once per batch in order
EvalBatchStep ==
    /\ bpc = "for_test_batch"
    /\ t_next <= Len(test_batches)
    /\ LET m == EvalBatch(Objects, test_batches[t_next])
       IN /\ params' = m.params /\ grad' = m.grad
          /\ opt_steps' = m.opt_steps /\ sched_steps' = m.sched_steps
          /\ predictions' = m.predictions /\ true_labels' = m.true_labels
    /\ t_next' = t_next + 1
    /\ UNCHANGED <<bpc, num_batches, test_batches, model_training, epoch, remaining,
                   batch, total_loss, loss, printed, visited, events, accuracy>>
    /\ UNCHANGED notBert

\* test_loader is exhausted: accuracy = accuracy_score(true_labels, predictions)
EvalEnd ==
    /\ bpc = "for_test_batch"
    /\ t_next > Len(test_batches)
    /\ accuracy' = <<AccuracyScore(true_labels, predictions)>>
    /\ bpc' = "evaluated"
    /\ UNCHANGED <<num_batches, test_batches, model_training, epoch, remaining, batch,
                   total_loss, loss, grad, params, opt_steps, sched_steps, printed,
                   visited, events, t_next, predictions, true_labels>>
    /\ UNCHANGED notBert

(***************************************************************************)
(* YelpDataset: construction, then calls of __getitem__ and __len__.       *)
(***************************************************************************)
\* the keys of the tokenizer output kept, and the rows and labels tried
EncodingKeys == {"input_ids", "attention_mask"}
TokenRows == {<<101, 7, 102>>, <<101, 102, 0>>}
Classes == {0, 1}

\* YelpDataset(encodings, labels): one row per key and one label per example
DatasetNew ==
    \E n \in 1..MaxExamples :
    \E enc \in [EncodingKeys -> [0..(n - 1) -> TokenRows]], lab \in [0..(n - 1) -> Classes] :
        /\ ypc = "ready"
        /\ encodings = enc /\ labels = lab
        /\ idx = 0 /\ item = Unset /\ returned = Unset

\* dataset[i] is called; an index past the end raises IndexError
GetItemCall ==
    /\ ypc \in {"ready", "returned"}
    /\ \E i \in 0..PyLen(labels) :
        /\ idx' = i
        /\ ypc' = IF i < PyLen(labels) THEN "getitem" ELSE "IndexError"
    /\ item' = Unset
    /\ UNCHANGED <<encodings, labels, returned>>
    /\ UNCHANGED notData

\* item = {key: torch.tensor(val[idx]) for key, val in self.encodings.items()}
GetItemEncodings ==
    /\ ypc = "getitem"
    /\ item' = ItemOfEncodings(encodings, idx)
    /\ ypc' = "item"
    /\ UNCHANGED <<encodings, labels, idx, returned>>
    /\ UNCHANGED notData

\* item['labels'] = torch.tensor(self.labels[idx]); return item
GetItemLabels ==
    /\ ypc = "item"
    /\ item' = SetItem(item, "labels", TorchTensor(Index(labels, idx)))
    /\ returned' = item'
    /\ ypc' = "returned"
    /\ UNCHANGED <<encodings, labels, idx>>
    /\ UNCHANGED notData

\* len(dataset): return len(self.labels)
LenCall ==
    /\ ypc \in {"ready", "returned"}
    /\ returned' = <<PyLen(labels)>>
    /\ item' = Unset
    /\ ypc' = "len"
    /\ UNCHANGED <<encodings, labels, idx>>
    /\ UNCHANGED notData

\* the caller takes the length and goes on
LenReturn ==
    /\ ypc = "len"
    /\ ypc' = "ready"
    /\ UNCHANGED <<encodings, labels, idx, item, returned>>
    /\ UNCHANGED notData

(***************************************************************************)
(* Transformer.forward, statement by statement, for every run at once.     *)
(***************************************************************************)
\* the masks a Transformer is built with: none, torch.tril, a mask whose
\* first row is all zeros, and a lower-triangular mask of another length
TfMaskChoices(n) == {NoMask, Tril(n), StrictTril(n), Tril(n + 1)}

\* the decoder blocks of a run have the weights BlockBase(base + 1), ...
DecoderBases == {2, 4}

\* the runs still executing
Running == f_runs \ f_raised

\* two calls on the same x: run 1 with the torch.tril mask, run 2 with any
\* mask, any of the decoder weights and its own dropout outcome in the decoder
TfCall ==
    \E batch_size \in 1..MaxBatch, n \in 1..MaxSeq :
    \E ts \in TokSeqs(n), m \in TfMaskChoices(n), base \in DecoderBases, mode \in 0..2 :
        /\ fpc = "call"
        /\ f_runs = {1, 2}
        /\ f_in = Embed(ts, batch_size)
        /\ f_mask = [r \in f_runs |-> IF r = 1 THEN Tril(n) ELSE m]
        /\ f_base = [r \in f_runs |-> IF r = 1 THEN 2 ELSE base]
        /\ f_training = (mode > 0)
        /\ f_enc_dropped = IF mode = 2 THEN {<<BlockBase(1) + 1, 1, 1, 1>>} ELSE {}
        /\ f_drop_attn = [r \in f_runs |->
                            IF mode = 2 /\ r = 2 THEN {<<1, 1, n, 1>>} ELSE {}]
        /\ f_dec_dropped = [r \in f_runs |->
                              IF mode = 2 /\ r = 2
                              THEN {<<BlockBase(f_base[r] + 1), 1, 1, 1>>}
                              ELSE {}]
        /\ f_x = [r \in f_runs |-> f_in]
        /\ f_out = [r \in f_runs |-> Unset]
        /\ f_layer = 0
        /\ f_raised = {}
        /\ f_result = [r \in f_runs |-> Unset]

\* x = self.encoder(x), entered: x = self.positional_encoding(x)
TfEncPositional ==
    /\ fpc = "call"
    /\ f_x' = [r \in f_runs |-> PositionalEncodingForward(f_x[r], DefaultL)]
    /\ fpc' = "encoder"
    /\ UNCHANGED <<f_runs, f_in, f_mask, f_base, f_training, f_enc_dropped,
                   f_drop_attn, f_dec_dropped, f_out, f_layer, f_raised, f_result>>
    /\ UNCHANGED notTf

\* x = self.encoder(x): for layer in self.layers: x = layer(x)
TfEncLayer ==
    /\ fpc = "encoder"
    /\ f_layer < NUM_LAYERS
    /\ f_x' = [r \in f_runs |->
                  TransformerBlockForward(BlockBase(f_layer + 1), f_x[r], Unset,
                                          f_training, f_enc_dropped)]
    /\ f_layer' = f_layer + 1
    /\ UNCHANGED <<fpc, f_runs, f_in, f_mask, f_base, f_training, f_enc_dropped,
                   f_drop_attn, f_dec_dropped, f_out, f_raised, f_result>>
    /\ UNCHANGED notTf

\* x = self.encoder(x): the encoder returns
TfEncReturn ==
    /\ fpc = "encoder"
    /\ f_layer = NUM_LAYERS
    /\ f_layer' = 0
    /\ fpc' = "encoded"
    /\ UNCHANGED <<f_runs, f_in, f_mask, f_base, f_training, f_enc_dropped,
                   f_drop_attn, f_dec_dropped, f_x, f_out, f_raised, f_result>>
    /\ UNCHANGED notTf

\* out = self.positional_encoding(x)
TfPositional ==
    /\ fpc = "encoded"
    /\ f_out' = [r \in f_runs |-> PositionalEncodingForward(f_x[r], DefaultL)]
    /\ fpc' = "decoder"
    /\ UNCHANGED <<f_runs, f_in, f_mask, f_base, f_training, f_enc_dropped,
                   f_drop_attn, f_dec_dropped, f_x, f_layer, f_raised, f_result>>
    /\ UNCHANGED notTf

\* for layer in self.decoder: out = layer(out, x); the masked_fill of the
\* layer raises a RuntimeError when the mask does not broadcast to the scores
TfDecoderLayer ==
    /\ fpc = "decoder"
    /\ f_layer < NUM_LAYERS
    /\ f_raised' = f_raised \cup
            {r \in Running : ~MaskBroadcasts(f_mask[r], Size1(f_out[r]))}
    /\ f_out' = [r \in f_runs |->
                    IF r \in f_raised' THEN f_out[r]
                    ELSE DecoderBlockForward(BlockBase(f_base[r] + f_layer + 1),
                                             f_out[r], f_x[r], f_mask[r], f_training,
                                             f_drop_attn[r], f_dec_dropped[r])]
    /\ f_layer' = f_layer + 1
    /\ UNCHANGED <<fpc, f_runs, f_in, f_mask, f_base, f_training, f_enc_dropped,
                   f_drop_attn, f_dec_dropped, f_x, f_result>>
    /\ UNCHANGED notTf

\* x = self.ffn(x); return x, in the runs that did not raise
TfReturn ==
    /\ fpc = "decoder"
    /\ f_layer = NUM_LAYERS
    /\ f_result' = [r \in f_runs |->
                      IF r \in f_raised THEN Unset ELSE ReturnFfn(f_x[r], f_out[r])]
    /\ fpc' = "return"
    /\ UNCHANGED <<f_runs, f_in, f_mask, f_base, f_training, f_enc_dropped,
                   f_drop_attn, f_dec_dropped, f_x, f_out, f_layer, f_raised>>
    /\ UNCHANGED notTf

vars == <<selfVars, mhaVars, peVars, encVars, decVars, bertVars, dataVars, tfVars>>

\* self_attention alone
InitSelf == SelfCall /\ MhaIdle /\ PeIdle /\ EncIdle /\ DecIdle /\ BertIdle /\ DataIdle /\ TfIdle
NextSelf == SelfScoresStep \/ SelfSoftmaxStep \/ SelfOutputStep
SpecSelf == InitSelf /\ [][NextSelf]_vars

\* both attention routines, one call each
InitAttn ==
    /\ (SelfCall /\ MhaIdle) \/ (MhaCall /\ SelfIdle)
    /\ PeIdle /\ EncIdle /\ DecIdle /\ BertIdle /\ DataIdle /\ TfIdle
NextAttn ==
    \/ SelfScoresStep \/ SelfSoftmaxStep \/ SelfOutputStep
    \/ Project \/ Score \/ Mask \/ SoftmaxStep \/ DropoutStep \/ WeightedStep \/ Return
SpecAttn == InitAttn /\ [][NextAttn]_vars

\* masked attention on two inputs that agree up to a position
InitCausal == CausalCall /\ SelfIdle /\ PeIdle /\ EncIdle /\ DecIdle /\ BertIdle /\ DataIdle /\ TfIdle
NextCausal ==
    Project \/ Score \/ Mask \/ SoftmaxStep \/ DropoutStep \/ WeightedStep \/ Return
SpecCausal == InitCausal /\ [][NextCausal]_vars

\* the construction of a positional encoding
InitPE == PENew /\ SelfIdle /\ MhaIdle /\ EncIdle /\ DecIdle /\ BertIdle /\ DataIdle /\ TfIdle
NextPE == PEZeros \/ PESin \/ PECos \/ PEUnsqueeze
SpecPE == InitPE /\ [][NextPE]_vars

\* one forward pass of the encoder
InitEnc == EncCall /\ SelfIdle /\ MhaIdle /\ PeIdle /\ DecIdle /\ BertIdle /\ DataIdle /\ TfIdle
NextEnc == EncPositional \/ EncLayer \/ EncReturn
SpecEnc == InitEnc /\ [][NextEnc]_vars

\* a decoder block on two decoder inputs that agree up to a position
InitDec == DecCall /\ SelfIdle /\ MhaIdle /\ PeIdle /\ EncIdle /\ BertIdle /\ DataIdle /\ TfIdle
NextDec == DecSelfAttention \/ DecResidual \/ DecNorm \/ DecTransformerBlock
SpecDec == InitDec /\ [][NextDec]_vars

\* the BERT notebook, every statement eventually executed
InitBert == BertSetup /\ SelfIdle /\ MhaIdle /\ PeIdle /\ EncIdle /\ DecIdle /\ DataIdle /\ TfIdle
NextBert ==
    \/ TrainMode \/ EpochBegin \/ NextBatch \/ ZeroGradStep \/ ForwardStep
    \/ BackwardStep \/ OptimizerStep \/ SchedulerStepStep \/ Accumulate
    \/ EpochEnd \/ TrainingEnd \/ EvalMode \/ EvalBatchStep \/ EvalEnd
SpecBert == InitBert /\ [][NextBert]_vars /\ WF_vars(NextBert)

\* a dataset and any sequence of calls on it
InitData == DatasetNew /\ SelfIdle /\ MhaIdle /\ PeIdle /\ EncIdle /\ DecIdle /\ BertIdle /\ TfIdle
NextData == GetItemCall \/ GetItemEncodings \/ GetItemLabels \/ LenCall \/ LenReturn
SpecData == InitData /\ [][NextData]_vars

\* Transformer.forward on one input under two masks and decoder settings
InitTf ==
    TfCall /\ SelfIdle /\ MhaIdle /\ PeIdle /\ EncIdle /\ DecIdle /\ BertIdle /\ DataIdle
NextTf ==
    TfEncPositional \/ TfEncLayer \/ TfEncReturn \/ TfPositional \/ TfDecoderLayer \/ TfReturn
SpecTf == InitTf /\ [][NextTf]_vars

(***************************************************************************)
(* Properties of the attention routines.                                   *)
(***************************************************************************)
\* the positions of the tensors of the masked attention call
MhaBatch == 1..Size0(query[1])
MhaPos == 1..Size1(query[1])
MhaReturned == mpc = "return"
\* x and y hold the same vectors at the positions 1..i of batch element b
AgreeUpTo(x, y, b, i) == \A s \in 1..i : x[b][s] = y[b][s]

\* C1: under the lower-triangular mask, with the same query, weights and
\* dropout outcome, two calls whose key and value agree at the positions up
\* to i return the same vector at position i, whatever the later positions
\* of key and value hold.
C1_CausalNonInterference ==
    MhaReturned =>
        \A b \in MhaBatch, i \in MhaPos :
            (/\ query[1] = query[2]
             /\ AgreeUpTo(key[1], key[2], b, i)
             /\ AgreeUpTo(value[1], value[2], b, i))
            => result[1][b][i] = result[2][b][i]

\* two calls in training mode with a dropped weight, whose inputs differ only
\* at the last position: the outputs agree before it and differ at it
C1_Witness ==
    /\ MhaReturned /\ runs = {1, 2} /\ mask = Tril(Len(mask))
    /\ training /\ dropped # {}
    /\ \E b \in MhaBatch, i \in MhaPos :
        /\ i + 1 \in MhaPos
        /\ AgreeUpTo(key[1], key[2], b, i) /\ AgreeUpTo(value[1], value[2], b, i)
        /\ key[1][b][i + 1] # key[2][b][i + 1]
        /\ value[1][b][i + 1] # value[2][b][i + 1]
        /\ result[1][b][i] = result[2][b][i]
        /\ result[1][b][i + 1] # result[2][b][i + 1]

\* a row of weights sums to 1, to the rounding of one unit per weight
RowSumsToOne(row) ==
    LET total == Sum(row) IN ~IsNaN(total) /\ Abs(total - Scale) <= Len(row)
\* a row of weights sums to 1 / (1 - p), p the dropout probability
RowSumsToKeepScale(row) ==
    LET total == Sum(row)
    IN ~IsNaN(total)
       /\ Abs(total - RoundDiv(Scale * 100, 100 - DropoutPct)) <= 2 * Len(row)
\* key j may be attended from query i
Unmasked(i, j) == mask = NoMask \/ mask[i][j] # 0
\* query i has a key it may attend
HasKey(i) == \E j \in MhaPos : Unmasked(i, j)
SelfWeighted == spc \in {"weights", "return"}
SelfRowsSumToOne ==
    \A b \in 1..Len(weights) : \A i \in 1..Len(weights[b]) : RowSumsToOne(weights[b][i])

\* C2 as claimed: the weights multiplied with the value vectors sum to 1 along
\* the key axis, in self_attention and in MaskedMultiHeadAttention.forward
\* with or without a mask.
C2_MatmulWeightsSumToOne ==
    /\ SelfWeighted => SelfRowsSumToOne
    /\ mpc \in {"dropout", "weighted", "return"} =>
        \A r \in runs, b \in MhaBatch, h \in 1..NHEAD, i \in MhaPos :
            RowSumsToOne(attn_weights[r][b][h][i])

\* C2 as amended: the weights of self_attention sum to 1 along the key axis;
\* in MaskedMultiHeadAttention.forward the softmax output sums to 1 on every
\* query row that has an unmasked key and is NaN on a row that has none; the
\* weights multiplied with the values are these only in evaluation mode, and
\* in training mode a dropped weight is 0 and a row with nothing dropped sums
\* to 1 / (1 - 0.1).
C2_SoftmaxWeightsSumToOne ==
    /\ SelfWeighted => SelfRowsSumToOne
    /\ mpc \in {"softmax", "dropout", "weighted", "return"} =>
        \A r \in runs, b \in MhaBatch, h \in 1..NHEAD, i \in MhaPos :
            LET row == attn_weights[r][b][h][i]
            IN IF ~HasKey(i) THEN \A j \in MhaPos : IsNaN(row[j])
               ELSE IF mpc = "softmax" \/ ~training THEN RowSumsToOne(row)
               ELSE /\ \A j \in MhaPos : <<b, h, i, j>> \in dropped => row[j] = 0
                    /\ (\A j \in MhaPos : <<b, h, i, j>> \notin dropped)
                        => RowSumsToKeepScale(row)

\* a masked call in evaluation mode at the matmul, several keys per row, and a
\* finished self_attention call with more keys than queries
C2_Witness ==
    \/ /\ mpc = "dropout" /\ ~training /\ mask = Tril(Len(mask)) /\ Len(mask) >= 2
       /\ \A b \in MhaBatch, h \in 1..NHEAD, i \in MhaPos :
            /\ RowSumsToOne(attn_weights[1][b][h][i])
            /\ i >= 2 => attn_weights[1][b][h][i][1] > 0 /\ attn_weights[1][b][h][i][2] > 0
    \/ /\ spc = "return" /\ Size1(K) > Size1(Q) /\ SelfRowsSumToOne

\* C3 as claimed: the output of self_attention has the shape of V.
C3_OutputShapeIsValueShape == spc = "return" => Shape3(sa_output) = Shape3(V)

\* C3 as amended: the output of self_attention has the shape
\* (b, n_q, d_v): the batch and value dimension of V and the length of Q, which
\* is the shape of V exactly when Q and K have the same length.
C3_OutputShapeIsQueryByValue ==
    spc = "return" =>
        /\ Shape3(sa_output) = <<Size0(V), Size1(Q), Size2(V)>>
        /\ (Shape3(sa_output) = Shape3(V)) <=> (Size1(Q) = Size1(K))

\* a finished call with n_q # n_k and d_v # d
C3_Witness ==
    /\ spc = "return"
    /\ Size1(Q) # Size1(K) /\ Size2(V) # Size2(K)
    /\ Shape3(sa_output) = <<Size0(Q), Size1(Q), Size2(V)>>

MhaMasked == mask # NoMask /\ mpc \in {"softmax", "dropout", "weighted", "return"}
\* at "masked" the scores are the scaled products with -inf written over the
\* masked ones, and no weight exists yet
MaskedBeforeSoftmax ==
    mpc = "masked" =>
        /\ attn_weights = Unset
        /\ \A r \in runs, b \in MhaBatch, h \in 1..NHEAD, i \in MhaPos, j \in MhaPos :
            scores[r][b][h][i][j] =
                IF Unmasked(i, j) THEN ScaledScores(q[r], k[r])[b][h][i][j] ELSE NegInf
\* the weighted sum of row i, taken over the unmasked keys only
UnmaskedSum(r, b, h, i) ==
    [e \in 1..HeadDim |->
        Sum([j \in MhaPos |->
            IF Unmasked(i, j) THEN FMul(attn_weights[r][b][h][i][j], v[r][b][h][j][e])
            ELSE 0])]

\* C4 as claimed: the scores are scaled, then masked, then normalised, and
\* every masked (query, key) pair has the weight 0 and adds nothing to the
\* weighted sum.
C4_MaskedWeightIsZero ==
    /\ MaskedBeforeSoftmax
    /\ MhaMasked =>
        \A r \in runs, b \in MhaBatch, h \in 1..NHEAD, i \in MhaPos, j \in MhaPos :
            ~Unmasked(i, j) => attn_weights[r][b][h][i][j] = 0
    /\ (mask # NoMask /\ mpc \in {"weighted", "return"}) =>
        \A r \in runs, b \in MhaBatch, h \in 1..NHEAD, i \in MhaPos :
            output[r][b][h][i] = UnmaskedSum(r, b, h, i)

\* C4 as amended: the same on every query row that has at least one unmasked
\* key; a row whose keys are all masked has NaN weights and a NaN weighted sum.
C4_MaskedWeightIsZeroOnLiveRows ==
    /\ MaskedBeforeSoftmax
    /\ MhaMasked =>
        \A r \in runs, b \in MhaBatch, h \in 1..NHEAD, i \in MhaPos, j \in MhaPos :
            LET w == attn_weights[r][b][h][i][j]
            IN IF ~HasKey(i) THEN IsNaN(w)
               ELSE IF ~Unmasked(i, j) THEN w = 0
               ELSE Finite(w) /\ w >= 0
    /\ (mask # NoMask /\ mpc \in {"weighted", "return"}) =>
        \A r \in runs, b \in MhaBatch, h \in 1..NHEAD, i \in MhaPos :
            output[r][b][h][i] =
                IF HasKey(i) THEN UnmaskedSum(r, b, h, i)
                ELSE [e \in 1..HeadDim |-> NaN]

\* a causal call past the weighted sum: the first query attends one key, the
\* last one every key, and the masked value would have changed the sum
C4_Witness ==
    /\ mpc = "weighted" /\ mask = Tril(Len(mask)) /\ Len(mask) >= 2
    /\ attn_weights[1][1][1][1][2] = 0
    /\ attn_weights[1][1][1][1][1] > 0
    /\ attn_weights[1][1][1][2][1] > 0
    /\ v[1][1][1][1] # v[1][1][1][2]
    /\ output[1][1][1][1] = UnmaskedSum(1, 1, 1, 1)

(***************************************************************************)
(* C5: the positional signal inside the encoder.                           *)
(***************************************************************************)
\* x plus the encoding row of the first-axis index: the row of sequence
\* position p for an x of shape (seq_len, batch_size, d_model)
AddEncodingBySequence(x, ll) ==
    Tensor3(
        [p \in 1..Size0(x) |->
            [b \in 1..Size1(x) |->
                [c \in 1..Size2(x) |->
                    FAdd(x[p][b][c], EncodingRow(ll, Size2(x), p - 1)[c - 1])]]])

\* C5: for an x of shape (seq_len, batch_size, d_model) given to
\* TransformerEncoder.forward, what self.positional_encoding adds at sequence
\* position p of every batch element is encoding row PE(p, .)
C5_PositionalSignalFollowsSequence ==
    epc = "positional" => e_x = AddEncodingBySequence(e_in, DefaultL)

(***************************************************************************)
(* C6: the table PositionalEncoding.__init__ builds.                       *)
(***************************************************************************)
\* pos / l^(2i / d_model), from the formula of the text
FormulaAngle(pos, i) == RoundDiv(pos * Scale, Pow(IRoot(l, d_model), 2 * i))

PairChannels == {i \in 0..d_model : 2 * i + 1 < d_model}

TableMatchesFormula ==
    ppc = "done" =>
        \A pos \in 0..(max_len - 1) : \A i \in PairChannels :
            /\ encoding[0][pos][2 * i] = FSin(FormulaAngle(pos, i))
            /\ encoding[0][pos][2 * i + 1] = FCos(FormulaAngle(pos, i))
            /\ pos = 0 => encoding[0][pos][2 * i] = 0 /\ encoding[0][pos][2 * i + 1] = Scale

\* C6 as stated: the table matches sin / cos of pos / l^(2i/d_model) on every
\* pair of channels, and construction succeeds for every d_model >= 1
C6_TableMatchesAndAlwaysConstructs ==
    TableMatchesFormula /\ ppc # "error"

\* C6: the table of a constructed PositionalEncoding matches sin / cos of
\* pos / l^(2i/d_model) on every pair of channels with row 0 equal to 0, 1;
\* construction succeeds for every even d_model and raises at the cos
\* assignment for every odd d_model >= 3
C6_TableMatchesAndEvenConstructs ==
    /\ TableMatchesFormula
    /\ ppc = "error" => d_model % 2 = 1 /\ d_model >= 3
    /\ (ppc \in {"cos", "done"} /\ d_model > 1) => d_model % 2 = 0

C6_Witness ==
    /\ ppc = "done" /\ d_model = 4 /\ max_len >= 2
    /\ encoding[0][1][0] # encoding[0][1][2]
    /\ encoding[0][1][1] # encoding[0][1][3]

(***************************************************************************)
(* C10: DecoderBlock.forward under the lower-triangular mask.              *)
(***************************************************************************)
DecBatch == 1..Size0(d_output[1])
DecPos == 1..Size1(d_output[1])

\* the two decoder inputs are the same at positions 1..i of every batch element
OutputsAgreeUpTo(i) == \A b \in DecBatch : AgreeUpTo(d_output[1], d_output[2], b, i)

\* C10: with x, the weights, the mode and the dropout outcome the same, the
\* value DecoderBlock.forward returns at position i is the same for two decoder
\* inputs that differ only at positions after i
C10_DecoderBlockCausal ==
    dpc = "return" =>
        \A i \in DecPos :
            OutputsAgreeUpTo(i) =>
                \A b \in DecBatch : d_result[1][b][i] = d_result[2][b][i]

\* two batch elements, inputs that differ from some position on, and a
\* returned value that differs there while the earlier positions are equal
C10_Witness ==
    /\ dpc = "return"
    /\ Size0(d_output[1]) >= 2
    /\ \E i \in DecPos :
        /\ i + 1 \in DecPos
        /\ OutputsAgreeUpTo(i)
        /\ ~OutputsAgreeUpTo(i + 1)
        /\ \E b \in DecBatch : d_result[1][b][i + 1] # d_result[2][b][i + 1]
        /\ \A b \in DecBatch : d_result[1][b][i] = d_result[2][b][i]

(***************************************************************************)
(* C7: the order and the length of the training loop.                      *)
(***************************************************************************)
BatchEvents ==
    <<"optimizer.zero_grad", "forward", "loss.backward", "optimizer.step",
      "scheduler.step">>

IsPrefix(a, b) == Len(a) <= Len(b) /\ a = SubSeq(b, 1, Len(a))

TrainingFinished == bpc \in {"trained", "for_test_batch", "evaluated"}

\* how many times the loader yielded batch b in epoch e
Visits(e, b) == Cardinality({n \in 1..Len(visited) : visited[n] = <<e, b>>})

\* the calls of the current batch are made in the order of BatchEvents, all
\* five of them before the loss is accumulated
EventsInOrder ==
    /\ IsPrefix(events, BatchEvents)
    /\ bpc = "accumulate" => events = BatchEvents

\* the gradient optimizer.step uses is that of the backward pass of the
\* current batch and of nothing else
GradientOfThisBatch ==
    /\ bpc = "optimizer_step" => grad = << <<epoch, batch>> >>
    /\ \A n \in 1..Len(params) : params[n] = << visited[n] >>

\* no batch is yielded twice in an epoch, and after the loop every batch was
\* yielded exactly once in each of the 3 epochs, and never in a fourth
EveryBatchOncePerEpoch ==
    /\ \A e \in 0..(EPOCHS - 1) : \A b \in 1..num_batches : Visits(e, b) <= 1
    /\ TrainingFinished =>
        /\ epoch = EPOCHS
        /\ Len(printed) = EPOCHS
        /\ Len(visited) = EPOCHS * num_batches
        /\ \A e \in 0..(EPOCHS - 1) : \A b \in 1..num_batches : Visits(e, b) = 1
        /\ opt_steps = EPOCHS * num_batches
        /\ sched_steps = EPOCHS * num_batches

\* C7: the training loop runs exactly 3 epochs and yields every batch of
\* train_loader exactly once per epoch; for every batch the calls are
\* zero_grad, forward, backward, optimizer.step, scheduler.step in this order,
\* optimizer.step uses the gradient of this batch's backward pass alone, and
\* the loop terminates
C7_TrainingLoopOrderAndLength ==
    /\ [](EventsInOrder /\ GradientOfThisBatch /\ EveryBatchOncePerEpoch)
    /\ <>TrainingFinished

\* the loop has ended after three shuffled passes over two batches, the first
\* of which began with the second batch
C7_Witness ==
    /\ bpc = "trained"
    /\ num_batches = 2
    /\ visited[1] = <<0, 2>>
    /\ Len(params) = EPOCHS * 2

(***************************************************************************)
(* C8: the evaluation loop.                                                *)
(***************************************************************************)
InEvaluationLoop == bpc = "for_test_batch"

\* C8: no step of the evaluation loop over test_loader changes the
\* parameters, the gradients, the optimizer's or the scheduler's step count,
\* the mode of the model or anything the training loop left: only
\* predictions and true_labels (and the loader's position) change
C8_EvaluationIsForwardOnly ==
    [][InEvaluationLoop =>
        UNCHANGED <<params, grad, opt_steps, sched_steps, model_training,
                    total_loss, loss, printed, epoch, num_batches, test_batches>>]_vars

\* evaluation has ended on a trained model with one prediction per label
C8_Witness ==
    /\ bpc = "evaluated"
    /\ opt_steps > 0 /\ Len(params) > 0
    /\ Len(predictions) >= 2
    /\ Len(predictions) = Len(true_labels)

(***************************************************************************)
(* C9: YelpDataset as an indexed adapter.                                  *)
(***************************************************************************)
ItemReturned == ypc = "returned"
LenReturned == ypc = "len"

\* the returned item has the keys of the encodings and 'labels', each key with
\* the entry of its encoding at idx, 'labels' with the label at idx
ItemIsExampleAtIdx ==
    ItemReturned =>
        /\ idx \in 0..(PyLen(labels) - 1)
        /\ DOMAIN returned = (DOMAIN encodings) \cup {"labels"}
        /\ \A name \in DOMAIN encodings : returned[name].tensor = encodings[name][idx]
        /\ returned["labels"].tensor = labels[idx]

\* C9: len(dataset) is len(labels); dataset[idx] holds, for every key of the
\* encodings, the encoding entry at idx, and 'labels' equal to labels[idx];
\* no call changes encodings or labels
C9_FaithfulIndexedAdapter ==
    /\ [](ItemIsExampleAtIdx /\ (LenReturned => returned = <<Cardinality(DOMAIN labels)>>))
    /\ [][UNCHANGED <<encodings, labels>>]_vars

\* the second of two examples that differ in tokens and in label was returned
C9_Witness ==
    /\ ItemReturned
    /\ idx = 1
    /\ labels[0] # labels[1]
    /\ encodings["input_ids"][0] # encodings["input_ids"][1]
    /\ returned["labels"].tensor = labels[1]

(***************************************************************************)
(* C11: the budget of the scheduler.                                       *)
(***************************************************************************)
\* the statements between two batches, and after the loop: every batch begun
\* has made both its optimizer.step and its scheduler.step
BetweenBatches ==
    bpc \in {"accumulate", "for_batch", "for_epoch", "trained", "for_test_batch",
             "evaluated"}

\* C11: the number of scheduler.step calls never exceeds total_steps =
\* len(train_loader) * 3, equals the number of optimizer.step calls after each
\* batch, and is total_steps exactly once the training loop has finished
C11_SchedulerBudget ==
    /\ bpc # "idle" => sched_steps <= TotalSteps(num_batches)
    /\ BetweenBatches => sched_steps = opt_steps
    /\ TrainingFinished => sched_steps = TotalSteps(num_batches)

\* the loop has finished over two batches with the budget of 6 steps used up
C11_Witness ==
    /\ bpc = "trained"
    /\ num_batches = 2
    /\ sched_steps = 6 /\ opt_steps = 6

(***************************************************************************)
(* C12: the loss accumulated in an epoch.                                  *)
(***************************************************************************)
\* the loss of the n-th batch the loader yielded: the forward pass saw the
\* parameters left by the n - 1 optimizer steps before it
LossOfVisit(n) == Loss(SubSeq(params, 1, n - 1), visited[n][2])

\* the batches of epoch e whose loss has been added to total_loss: all that
\* were yielded, but for the current one until its `total_loss +=` has run
Accumulated(e) ==
    {n \in 1..Len(visited) :
        /\ visited[n][1] = e
        /\ ~(n = Len(visited)
             /\ bpc \in {"zero_grad", "forward", "backward", "optimizer_step",
                         "scheduler_step", "accumulate"})}

\* the sum of the losses of the batches in ns
RECURSIVE LossSum(_)
LossSum(ns) ==
    IF ns = {} THEN 0
    ELSE LET n == CHOOSE m \in ns : TRUE IN LossOfVisit(n) + LossSum(ns \ {n})

InEpoch ==
    bpc \in {"for_batch", "zero_grad", "forward", "backward", "optimizer_step",
             "scheduler_step", "accumulate"}

\* C12: inside an epoch total_loss is the sum of the losses of the batches of
\* this epoch accumulated so far (0 before the first) and of no other epoch;
\* the value printed for an epoch is the sum of the losses of all batches of
\* that epoch divided by len(train_loader)
C12_PerEpochLossAccumulation ==
    /\ InEpoch => total_loss = LossSum(Accumulated(epoch))
    /\ (bpc = "for_batch" /\ remaining = 1..num_batches) => total_loss = 0
    /\ \A e \in 1..Len(printed) :
        printed[e] = <<e, RoundDiv(LossSum({n \in 1..Len(visited) : visited[n][1] = e - 1}),
                                   num_batches)>>

\* the second epoch over two batches has been printed, and its batches are
\* being followed by those of the third, whose sum has started again from 0
C12_Witness ==
    /\ bpc = "for_batch"
    /\ num_batches = 2
    /\ epoch = 2
    /\ Len(printed) = 2
    /\ Len(visited) = 5
    /\ total_loss = LossOfVisit(5)
    /\ total_loss < LossSum(1..5)

(***************************************************************************)
(* C13: the decoder stack and the value Transformer.forward returns.       *)
(***************************************************************************)
TfReturned == fpc = "return"

\* C13 as stated: for a fixed input and fixed encoder and ffn weights the
\* result of Transformer.forward is the same for every mask and every setting
\* of the decoder weights
C13_ResultSameForEveryMask ==
    TfReturned =>
        /\ f_raised = {}
        /\ \A r1 \in f_runs, r2 \in f_runs : f_result[r1] = f_result[r2]

\* C13: every call that returns returns self.ffn of the encoder output, the
\* same value whatever the mask, the decoder weights and the dropout outcome
\* in the decoder; the decoder layers are executed all the same, and a call
\* ends in a RuntimeError instead exactly when its mask does not broadcast to
\* the attention scores
C13_ReturnedValueIgnoresDecoder ==
    TfReturned =>
        /\ \A r \in Running : f_result[r] = Ffn(f_x[r])
        /\ \A r1 \in Running, r2 \in Running : f_result[r1] = f_result[r2]
        /\ \A r \in f_runs : r \in f_raised <=> ~MaskBroadcasts(f_mask[r], Size1(f_in))

\* both calls returned the same value in training mode although the masks,
\* the decoder weights and the values of out differ
C13_Witness ==
    /\ TfReturned
    /\ f_raised = {}
    /\ f_training
    /\ f_mask[1] # f_mask[2]
    /\ f_base[1] # f_base[2]
    /\ f_out[1] # f_out[2]
    /\ f_result[1] = f_result[2]
    /\ f_result[1] # Unset

(***************************************************************************)
(* The rows of the scores under the notebook's mask                        *)
(***************************************************************************)
\* the scores have been through masked_fill
ScoresMasked == mpc \in {"masked", "softmax", "dropout", "weighted", "return"}
\* the mask of the notebook's examples, for the sequence length of the call
NotebookMask == mask = Tril(Size1(query[1]))

\* C14: with the lower-triangular mask of the notebook, for every sequence
\* length, every query position i has key position i unmasked; so after
\* masked_fill the score of (i, i) is a finite number and no row of scores is
\* -inf throughout, and every weight the softmax (and the dropout after it)
\* yields is a defined, finite number: no NaN from a zero normaliser.
C14_NoQueryRowFullyMasked ==
    NotebookMask =>
        /\ \A i \in MhaPos : mask[i][i] # 0 /\ HasKey(i)
        /\ ScoresMasked =>
            \A r \in runs, b \in MhaBatch, h \in 1..NHEAD, i \in MhaPos :
                /\ Finite(scores[r][b][h][i][i])
                /\ \E j \in MhaPos : scores[r][b][h][i][j] # NegInf
        /\ MhaMasked =>
            \A r \in runs, b \in MhaBatch, h \in 1..NHEAD, i \in MhaPos, j \in MhaPos :
                /\ ~IsNaN(attn_weights[r][b][h][i][j])
                /\ Finite(attn_weights[r][b][h][i][j])
        /\ mpc = "softmax" =>
            \A r \in runs, b \in MhaBatch, h \in 1..NHEAD, i \in MhaPos :
                Sum(attn_weights[r][b][h][i]) > 0

\* the softmax has run on a sequence of the longest length under the
\* notebook's mask: the first query row has all keys but its own at -inf,
\* and its weights are defined, all of the weight being on its own key
C14_Witness ==
    /\ NotebookMask /\ mpc = "softmax"
    /\ Size1(query[1]) = MaxSeq /\ MaxSeq >= 2
    /\ \A j \in MhaPos : j > 1 => scores[1][1][1][1][j] = NegInf
    /\ Finite(scores[1][1][1][1][1])
    /\ \A j \in MhaPos : Finite(attn_weights[1][1][1][1][j])
    /\ attn_weights[1][1][1][1][1] > 0

====
